---- MODULE Spec2Model ----
(***************************************************************************)
(* A model of scripts/garmin_fetch.py: one run of main(), from argument    *)
(* parsing through credential resolution, login, listing, filtering,       *)
(* downloading and printing, to process exit.                              *)
(*                                                                         *)
(* Strings whose characters matter (tool output that is stripped, the      *)
(* start timestamp that is sliced) are sequences of one-character strings; *)
(* dictionaries are functions whose DOMAIN is the set of keys present.      *)
(* Everything the run reads from outside (argv, the configuration files,   *)
(* the secret-manager tool, the environment, the remote session, the file  *)
(* system) is drawn from a small set by the action that reads it.          *)
(***************************************************************************)
EXTENDS Integers, Sequences, FiniteSets, TLC

VARIABLES
    pc,          \* position of main(): the next step to run, or "exited"
    args,        \* argparse namespace (main, line 180)
    config,      \* result of load_config() (main, line 186)
    cred,        \* what get_credentials() did and returned (lines 55-99)
    effects,     \* calls on the remote session and the file system, in order
    raw,         \* list_activities: the records the remote listing returned
    activities,  \* the filtered summaries (water_activities / activities)
    idx,         \* fetch-all: index of the next summary of the for loop
    results,     \* fetch-all: the result collection (line 223)
    stdout,      \* lines printed on standard output
    stderr,      \* lines printed on standard error
    exit         \* how the process ended and its exit code

vars == <<pc, args, config, cred, effects, raw, activities, idx, results,
          stdout, stderr, exit>>

----------------------------------------------------------------------------
(* Bounds of the model *)

\* longest raw listing the remote session returns in a run of main()
MaxActs == 3
\* longest raw listing handed to the filter when it is checked on its own
MaxRaw == 3
\* largest duration (seconds) rendered when text rendering is checked on its own
MaxDuration == 200
\* largest distance (meters) rendered when text rendering is checked on its own
MaxDistance == 2300

----------------------------------------------------------------------------
(* Python helpers *)

EmptyDict == [k \in {} |-> 0]

\* dict.get(k, default)
DictGet(d, k, default) == IF k \in DOMAIN d THEN d[k] ELSE default

\* Truthy as it would be had the code tested `k in d`: an empty string passes
TruthyPresent(d, k) == k \in DOMAIN d

\* truthiness of dict.get(k) for a string-valued key: None and "" are falsy
Truthy(d, k) == k \in DOMAIN d /\ d[k] # ""

Whitespace == {" ", "\n", "\t"}

RECURSIVE LStrip(_)
LStrip(s) == IF s # <<>> /\ Head(s) \in Whitespace THEN LStrip(Tail(s)) ELSE s

RECURSIVE RStrip(_)
RStrip(s) ==
    IF s # <<>> /\ s[Len(s)] \in Whitespace
    THEN RStrip(SubSeq(s, 1, Len(s) - 1))
    ELSE s

\* str.strip()
Strip(s) == RStrip(LStrip(s))

\* all sequences over S of length at most n
RECURSIVE SeqsUpTo(_, _)
SeqsUpTo(S, n) ==
    IF n = 0 THEN {<<>>}
    ELSE LET shorter == SeqsUpTo(S, n - 1)
         IN  shorter \cup {Append(s, x) : s \in {t \in shorter : Len(t) = n - 1}, x \in S}

----------------------------------------------------------------------------
(* Process exit *)

Running == [how |-> "running", code |-> 0]
\* main() returns: exit code 0
Returned == [how |-> "return", code |-> 0]
\* sys.exit(1)
SysExit1 == [how |-> "sys.exit", code |-> 1]
\* an exception nobody catches: traceback on stderr, exit code 1
Uncaught == [how |-> "uncaught", code |-> 1]

Traceback(what) == [kind |-> "traceback", what |-> what]

----------------------------------------------------------------------------
(* Command line (main, lines 161-184) *)

NoArgs == [command |-> "", days |-> 30, json |-> FALSE, activity_id |-> 0, output |-> "."]

ArgsSet ==
    { NoArgs,
      [NoArgs EXCEPT !.command = "list"],
      [NoArgs EXCEPT !.command = "list", !.days = 7, !.json = TRUE],
      [NoArgs EXCEPT !.command = "fetch", !.activity_id = 42],
      [NoArgs EXCEPT !.command = "fetch", !.activity_id = 7, !.output = "out"],
      [NoArgs EXCEPT !.command = "fetch-all"],
      [NoArgs EXCEPT !.command = "fetch-all", !.days = 7, !.output = "out", !.json = TRUE] }

----------------------------------------------------------------------------
(* Configuration (load_config, lines 41-52) *)

OnePasswordSections ==
    UNION { [keys -> {"", "set"}] : keys \in SUBSET {"account", "item"} }
    \cup { [account |-> "set", item |-> "set", vault |-> "Work",
            email_field |-> "email", password_field |-> "secret"] }

Configs ==
    { EmptyDict, [garmin |-> EmptyDict] }
    \cup { [garmin |-> [onepassword |-> op]] : op \in OnePasswordSections }

\* a candidate path: absent, present and valid JSON, or present and malformed
NoFile == [exists |-> FALSE, valid |-> FALSE, doc |-> EmptyDict]
JsonFile(doc) == [exists |-> TRUE, valid |-> TRUE, doc |-> doc]
BadFile == [exists |-> TRUE, valid |-> FALSE, doc |-> EmptyDict]

\* what the two candidate paths hold: ./config.json, then the per-user file
ConfigPathStates ==
    { <<f, NoFile>> : f \in {NoFile, BadFile} \cup {JsonFile(c) : c \in Configs} }
    \cup { <<NoFile, f>> : f \in {BadFile, JsonFile([garmin |-> EmptyDict])} }
    \cup { <<JsonFile(EmptyDict), BadFile>> }

\* load_config(): the first path that exists is parsed; none exists: {}
RECURSIVE load_config(_)
load_config(paths) ==
    IF paths = <<>> THEN [raised |-> FALSE, doc |-> EmptyDict]
    ELSE IF Head(paths).exists
         THEN [raised |-> ~Head(paths).valid, doc |-> Head(paths).doc]
         ELSE load_config(Tail(paths))

----------------------------------------------------------------------------
(* Credential resolution (get_credentials, lines 55-99) *)

\* outcomes of one subprocess.check_output(["op", "read", ref, "--account", a])
OpOutputs == { <<>>, <<"\n">>, <<"o", "\n">>, <<" ", "o", "p">> }
OpRuns ==
    { [status |-> "FileNotFoundError", out |-> <<>>],
      [status |-> "CalledProcessError", out |-> <<>>] }
    \cup { [status |-> "ok", out |-> o] : o \in OpOutputs }

EnvNames == {"GARMIN_EMAIL", "GARMIN_PASSWORD"}
EnvValues == { <<>>, <<"e">>, <<" ">> }
Environs == UNION { [names -> EnvValues] : names \in SUBSET EnvNames }

OpRef(vault, item, field) == <<"op://", vault, "/", item, "/", field>>
OpArgv(ref, account) == <<"op", "read", ref, "--account", account>>

CredentialsDiagnostic ==
    << [kind |-> "credentials not found"],
       [kind |-> "set GARMIN_EMAIL and GARMIN_PASSWORD"],
       [kind |-> "or configure 1Password"] >>

NoCred ==
    [kind |-> "none", email |-> <<>>, password |-> <<>>, invoked |-> <<>>,
     runs |-> <<>>, envRead |-> FALSE, environ |-> EmptyDict]

\* line 61: both account and item are set and non-empty
OnePasswordConfigured(op_config) == Truthy(op_config, "account") /\ Truthy(op_config, "item")

\* EnvFallback as it would be with `and` for `or` at line 93: one empty half passes
EnvFallbackBoth(c, environ) ==
    LET email == DictGet(environ, "GARMIN_EMAIL", <<>>)
        password == DictGet(environ, "GARMIN_PASSWORD", <<>>)
    IN  IF email = <<>> /\ password = <<>>
        THEN [c EXCEPT !.kind = "exit", !.envRead = TRUE, !.environ = environ]
        ELSE [c EXCEPT !.kind = "return", !.email = email, !.password = password,
                       !.envRead = TRUE, !.environ = environ]

\* lines 89-99: the environment-variable fallback
EnvFallback(c, environ) ==
    LET email == DictGet(environ, "GARMIN_EMAIL", <<>>)
        password == DictGet(environ, "GARMIN_PASSWORD", <<>>)
    IN  IF email = <<>> \/ password = <<>>
        THEN [c EXCEPT !.kind = "exit", !.envRead = TRUE, !.environ = environ]
        ELSE [c EXCEPT !.kind = "return", !.email = email, !.password = password,
                       !.envRead = TRUE, !.environ = environ]

\* TryOnePassword as it would be with `or` for `and` at line 84: the pair is
\* returned as soon as one half is non-empty
TryOnePasswordEither(op_config, run1, run2) ==
    LET argv1 == OpArgv(OpRef(DictGet(op_config, "vault", "Private"), op_config["item"],
                              DictGet(op_config, "email_field", "username")),
                        op_config["account"])
        argv2 == OpArgv(OpRef(DictGet(op_config, "vault", "Private"), op_config["item"],
                              DictGet(op_config, "password_field", "password")),
                        op_config["account"])
        email == Strip(run1.out)
        password == Strip(run2.out)
    IN  IF run1.status # "ok"
        THEN [NoCred EXCEPT !.invoked = <<argv1>>, !.runs = <<run1>>]
        ELSE IF run2.status # "ok"
        THEN [NoCred EXCEPT !.invoked = <<argv1, argv2>>, !.runs = <<run1, run2>>]
        ELSE IF email # <<>> \/ password # <<>>
        THEN [NoCred EXCEPT !.kind = "return", !.email = email, !.password = password,
                            !.invoked = <<argv1, argv2>>, !.runs = <<run1, run2>>]
        ELSE [NoCred EXCEPT !.invoked = <<argv1, argv2>>, !.runs = <<run1, run2>>]

\* lines 62-87: the secret-manager attempt; kind "none" means it fell through
TryOnePassword(op_config, run1, run2) ==
    LET vault == DictGet(op_config, "vault", "Private")
        item == op_config["item"]
        account == op_config["account"]
        email_field == DictGet(op_config, "email_field", "username")
        password_field == DictGet(op_config, "password_field", "password")
        argv1 == OpArgv(OpRef(vault, item, email_field), account)
        argv2 == OpArgv(OpRef(vault, item, password_field), account)
        email == Strip(run1.out)
        password == Strip(run2.out)
    IN  IF run1.status # "ok"
        THEN [NoCred EXCEPT !.invoked = <<argv1>>, !.runs = <<run1>>]
        ELSE IF run2.status # "ok"
        THEN [NoCred EXCEPT !.invoked = <<argv1, argv2>>, !.runs = <<run1, run2>>]
        ELSE IF email # <<>> /\ password # <<>>
        THEN [NoCred EXCEPT !.kind = "return", !.email = email, !.password = password,
                            !.invoked = <<argv1, argv2>>, !.runs = <<run1, run2>>]
        ELSE [NoCred EXCEPT !.invoked = <<argv1, argv2>>, !.runs = <<run1, run2>>]

get_credentials(cfg, run1, run2, environ) ==
    LET garmin_config == DictGet(cfg, "garmin", EmptyDict)
        op_config == DictGet(garmin_config, "onepassword", EmptyDict)
        tried == IF OnePasswordConfigured(op_config)
                 THEN TryOnePassword(op_config, run1, run2)
                 ELSE NoCred
    IN  IF tried.kind = "return" THEN tried ELSE EnvFallback(tried, environ)

----------------------------------------------------------------------------
(* Listing and filtering (list_activities, lines 115-137) *)

\* line 31: the water-sport whitelist, a Python list
WATER_SPORT_TYPES ==
    << "kayaking", "whitewater_rafting_v2", "stand_up_paddleboarding",
       "paddling", "canoeing", "rowing" >>

\* x in list
InList(x, list) == \E i \in DOMAIN list : list[i] = x

\* line 132: the slice [:10]
DateLen == 10
Prefix(s, n) == SubSeq(s, 1, IF Len(s) < n THEN Len(s) ELSE n)

\* line 126: activity.get("activityType", {}).get("typeKey", "")
TypeKeyOf(activity) == DictGet(DictGet(activity, "activityType", EmptyDict), "typeKey", "")

\* lines 128-135: the summary of one raw record
Summary(activity) ==
    [ id |-> activity["activityId"],
      name |-> DictGet(activity, "activityName", "Unnamed"),
      type |-> TypeKeyOf(activity),
      date |-> Prefix(DictGet(activity, "startTimeLocal", <<>>), DateLen),
      duration |-> DictGet(activity, "duration", 0),
      distance |-> DictGet(activity, "distance", 0) ]

\* str.lower() on the category keys that occur
Lower(t) == CASE t = "Kayaking" -> "kayaking" [] t = "ROWING" -> "rowing" [] OTHER -> t

\* IsWaterSport as it would be with a case-insensitive test
IsWaterSportAnyCase(activity) == InList(Lower(TypeKeyOf(activity)), WATER_SPORT_TYPES)

\* line 127: the whitelist test
IsWaterSport(activity) == InList(TypeKeyOf(activity), WATER_SPORT_TYPES)

\* lines 124-137: the loop over the raw records, in order
RECURSIVE WaterActivities(_)
WaterActivities(acts) ==
    IF acts = <<>> THEN <<>>
    ELSE IF IsWaterSport(Head(acts))
         THEN <<Summary(Head(acts))>> \o WaterActivities(Tail(acts))
         ELSE WaterActivities(Tail(acts))

StartStamp == <<"2","0","2","4","-","0","5","-","0","1"," ","0","8",":","0","0">>

\* raw records the remote listing returns in a run of main()
MorningPaddle ==
    [ activityId |-> 42, activityType |-> [typeKey |-> "kayaking"],
      activityName |-> "Morning paddle", startTimeLocal |-> StartStamp,
      duration |-> 3600, distance |-> 5000 ]
RunCatalogue ==
    { MorningPaddle,
      [activityId |-> 42, activityType |-> [typeKey |-> "rowing"]],
      [activityId |-> 7, activityType |-> [typeKey |-> "running"],
       activityName |-> "Jog", startTimeLocal |-> StartStamp,
       duration |-> 1800, distance |-> 4000],
      [activityId |-> 7, activityType |-> [typeKey |-> "stand_up_paddleboarding"],
       activityName |-> "SUP", startTimeLocal |-> <<"2","0","2","4">>,
       duration |-> 59, distance |-> 250],
      [activityId |-> 9, activityName |-> "Untyped"] }

\* raw records handed to the filter when it is checked on its own
TypeKeys ==
    { WATER_SPORT_TYPES[i] : i \in DOMAIN WATER_SPORT_TYPES }
    \cup { "Kayaking", "ROWING", "kayak", "running", "" }
FilterCatalogue ==
    { [activityId |-> 1, activityType |-> [typeKey |-> t]] : t \in TypeKeys }
    \cup { [activityId |-> 2, activityType |-> [typeKey |-> t],
            activityName |-> "Named", startTimeLocal |-> StartStamp,
            duration |-> 3600, distance |-> 5000] :
          t \in {"kayaking", "Kayaking"} }
    \cup { [activityId |-> 1, activityType |-> EmptyDict], [activityId |-> 2] }

----------------------------------------------------------------------------
(* Text rendering (main, lines 200-204) *)

\* int(x / y) for integers x and y > 0: the quotient truncated toward zero
TruncDiv(x, y) == IF x >= 0 THEN x \div y ELSE -((-x) \div y)

\* line 201
DurationMin(duration) == IF duration # 0 THEN TruncDiv(duration, 60) ELSE 0

\* significand width of a Python float (IEEE 754 binary64)
MantissaBits == 53

RECURSIVE Pow2Mod(_, _)
Pow2Mod(s, m) == IF s = 0 THEN 1 % m ELSE (2 * Pow2Mod(s - 1, m)) % m

\* the e with 2^e <= n/den < 2^(e+1), for n >= 1
RECURSIVE Log2Up(_, _, _)
Log2Up(n, den, e) == IF 2 * den <= n THEN Log2Up(n, 2 * den, e + 1) ELSE e
RECURSIVE Log2Down(_, _, _)
Log2Down(n, den, e) == IF n < den THEN Log2Down(2 * n, den, e - 1) ELSE e
Log2Floor(n, den) == IF n >= den THEN Log2Up(n, den, 0) ELSE Log2Down(n, den, 0)

\* sign of float(n / den) - n/den: Python's true division of two integers is
\* correctly rounded (round-half-even) to MantissaBits significant bits.  With
\* s the scaling that puts the quotient in [2^52, 2^53), the discarded part is
\* (n * 2^s) mod den, compared with den / 2.
DivisionErrorSign(n, den) ==
    LET s == (MantissaBits - 1) - Log2Floor(n, den)
        rem == ((n % den) * Pow2Mod(s, den)) % den
        quotientOdd == ((n % (2 * den)) * Pow2Mod(s, 2 * den)) % (2 * den) >= den
    IN  IF rem = 0 THEN 0
        ELSE IF 2 * rem < den THEN -1
        ELSE IF 2 * rem > den THEN 1
        ELSE IF quotientOdd THEN 1 ELSE -1

\* FormatTenths as it would be with half-up rounding of the decimal quotient
FormatTenthsHalfUp(n, den) == (20 * n + den) \div (2 * den)

\* f"{n / den:.1f}": the float's exact value rounded to one decimal, an exact
\* half going to the even digit; the result in tenths
FormatTenths(n, den) ==
    LET t == (10 * n) \div den
        r == (10 * n) % den
        err == DivisionErrorSign(n, den)
    IN  IF 2 * r < den THEN t
        ELSE IF 2 * r > den THEN t + 1
        ELSE IF err < 0 THEN t
        ELSE IF err > 0 THEN t + 1
        ELSE IF t % 2 = 0 THEN t ELSE t + 1

\* lines 202 and 204: distance_km and its rendering, as [whole, tenth]
DistanceKm(distance) ==
    LET tenths == IF distance # 0 THEN FormatTenths(distance, 1000) ELSE 0
    IN  [whole |-> tenths \div 10, tenth |-> tenths % 10]

\* lines 203-204: the two lines of one activity
ActivityLines(act) ==
    << [kind |-> "activity", id |-> act.id, date |-> act.date, name |-> act.name],
       [kind |-> "detail", type |-> act.type, min |-> DurationMin(act.duration),
        km |-> DistanceKm(act.distance)] >>

RECURSIVE ListingLines(_)
ListingLines(acts) ==
    IF acts = <<>> THEN <<>> ELSE ActivityLines(Head(acts)) \o ListingLines(Tail(acts))

NoneFound(days) == [kind |-> "none found", days |-> days]

----------------------------------------------------------------------------
(* Single fetch (fetch_gpx, lines 140-157) *)

\* Path(output_dir): "." contributes no component
PathOf(output_dir) == IF output_dir = "." THEN <<>> ELSE <<output_dir>>

\* FileName as it would be without the id in the name
FileNameFixed(activity_id) == <<"activity", ".gpx">>

\* line 148: f"activity_{activity_id}.gpx"
FileName(activity_id) == <<"activity_", activity_id, ".gpx">>

\* line 149: output_path / filename
FilePath(output_dir, activity_id) ==
    [dir |-> PathOf(output_dir), name |-> FileName(activity_id)]

NoPath == [dir |-> <<>>, name |-> <<>>]

Effect(op, id, path, ok) == [op |-> op, id |-> id, path |-> path, ok |-> ok]

FetchDiagnostic(activity_id) == [kind |-> "error fetching", id |-> activity_id]

\* what can happen in one call
FetchOutcomes == {"mkdir fails", "download fails", "write fails", "ok"}

\* fetch_gpx as it would be without the try: a failed download propagates
fetch_gpx_propagate(activity_id, output_dir, outcome) ==
    LET mkdir(ok) == Effect("mkdir", 0, [NoPath EXCEPT !.dir = PathOf(output_dir)], ok)
        download(ok) == Effect("download", activity_id, NoPath, ok)
        write(ok) == Effect("write", activity_id, FilePath(output_dir, activity_id), ok)
        none == [raised |-> FALSE, found |-> FALSE, filepath |-> NoPath,
                 effects |-> <<>>, stderr |-> <<>>]
    IN  CASE outcome = "mkdir fails" ->
                [none EXCEPT !.raised = TRUE, !.effects = <<mkdir(FALSE)>>]
          [] outcome = "download fails" ->
                [none EXCEPT !.raised = TRUE,
                             !.effects = <<mkdir(TRUE), download(FALSE)>>]
          [] outcome = "write fails" ->
                [none EXCEPT !.raised = TRUE,
                             !.effects = <<mkdir(TRUE), download(TRUE), write(FALSE)>>]
          [] outcome = "ok" ->
                [none EXCEPT !.found = TRUE,
                             !.filepath = FilePath(output_dir, activity_id),
                             !.effects = <<mkdir(TRUE), download(TRUE), write(TRUE)>>]

\* fetch_gpx as it would be with mkdir inside the try: a failed mkdir is caught
fetch_gpx_mkdir_caught(activity_id, output_dir, outcome) ==
    LET mkdir(ok) == Effect("mkdir", 0, [NoPath EXCEPT !.dir = PathOf(output_dir)], ok)
        download(ok) == Effect("download", activity_id, NoPath, ok)
        write(ok) == Effect("write", activity_id, FilePath(output_dir, activity_id), ok)
        none == [raised |-> FALSE, found |-> FALSE, filepath |-> NoPath,
                 effects |-> <<>>, stderr |-> <<>>]
    IN  CASE outcome = "mkdir fails" ->
                [none EXCEPT !.effects = <<mkdir(FALSE)>>,
                             !.stderr = <<FetchDiagnostic(activity_id)>>]
          [] outcome = "download fails" ->
                [none EXCEPT !.effects = <<mkdir(TRUE), download(FALSE)>>,
                             !.stderr = <<FetchDiagnostic(activity_id)>>]
          [] outcome = "write fails" ->
                [none EXCEPT !.effects = <<mkdir(TRUE), download(TRUE), write(FALSE)>>,
                             !.stderr = <<FetchDiagnostic(activity_id)>>]
          [] outcome = "ok" ->
                [none EXCEPT !.found = TRUE,
                             !.filepath = FilePath(output_dir, activity_id),
                             !.effects = <<mkdir(TRUE), download(TRUE), write(TRUE)>>]

\* fetch_gpx(client, activity_id, output_dir): mkdir is outside the try; the
\* download and the write are inside it, and every Exception there is caught
fetch_gpx(activity_id, output_dir, outcome) ==
    LET mkdir(ok) == Effect("mkdir", 0, [NoPath EXCEPT !.dir = PathOf(output_dir)], ok)
        download(ok) == Effect("download", activity_id, NoPath, ok)
        write(ok) == Effect("write", activity_id, FilePath(output_dir, activity_id), ok)
        none == [raised |-> FALSE, found |-> FALSE, filepath |-> NoPath,
                 effects |-> <<>>, stderr |-> <<>>]
    IN  CASE outcome = "mkdir fails" ->
                [none EXCEPT !.raised = TRUE, !.effects = <<mkdir(FALSE)>>]
          [] outcome = "download fails" ->
                [none EXCEPT !.effects = <<mkdir(TRUE), download(FALSE)>>,
                             !.stderr = <<FetchDiagnostic(activity_id)>>]
          [] outcome = "write fails" ->
                [none EXCEPT !.effects = <<mkdir(TRUE), download(TRUE), write(FALSE)>>,
                             !.stderr = <<FetchDiagnostic(activity_id)>>]
          [] outcome = "ok" ->
                [none EXCEPT !.found = TRUE,
                             !.filepath = FilePath(output_dir, activity_id),
                             !.effects = <<mkdir(TRUE), download(TRUE), write(TRUE)>>]

\* lines 208-211: a file path means main returns, no file path means sys.exit(1)
FetchExitZero(found) == Returned

FetchExit(found) == IF found THEN Returned ELSE SysExit1

\* lines 227-232: one entry of the result collection
FetchResult(act, filepath) ==
    [id |-> act.id, name |-> act.name, date |-> act.date, file |-> filepath]

----------------------------------------------------------------------------
(* The run *)

Init ==
    /\ pc = "parse_args"
    /\ args = NoArgs
    /\ config = EmptyDict
    /\ cred = NoCred
    /\ effects = <<>>
    /\ raw = <<>>
    /\ activities = <<>>
    /\ idx = 1
    /\ results = <<>>
    /\ stdout = <<>>
    /\ stderr = <<>>
    /\ exit = Running

\* lines 180-184: parse the command line; no subcommand prints the help and exits 1
ParseArgs ==
    /\ pc = "parse_args"
    /\ \E a \in ArgsSet :
        /\ args' = a
        /\ IF a.command = ""
           THEN /\ stdout' = Append(stdout, [kind |-> "help"])
                /\ exit' = SysExit1
                /\ pc' = "exited"
           ELSE /\ pc' = "load_config"
                /\ UNCHANGED <<stdout, exit>>
    /\ UNCHANGED <<config, cred, effects, raw, activities, idx, results, stderr>>

\* line 186: config = load_config(); a malformed file raises out of main()
LoadConfig ==
    /\ pc = "load_config"
    /\ \E paths \in ConfigPathStates :
        LET loaded == load_config(paths)
        IN  IF loaded.raised
            THEN /\ stderr' = Append(stderr, Traceback("json.load"))
                 /\ exit' = Uncaught
                 /\ pc' = "exited"
                 /\ UNCHANGED config
            ELSE /\ config' = loaded.doc
                 /\ pc' = "get_credentials"
                 /\ UNCHANGED <<stderr, exit>>
    /\ UNCHANGED <<args, cred, effects, raw, activities, idx, results, stdout>>

\* line 104: email, password = get_credentials(config)
GetCredentials ==
    /\ pc = "get_credentials"
    /\ \E run1 \in OpRuns, run2 \in OpRuns, environ \in Environs :
        LET c == get_credentials(config, run1, run2, environ)
        IN  /\ cred' = c
            /\ IF c.kind = "exit"
               THEN /\ stderr' = stderr \o CredentialsDiagnostic
                    /\ exit' = SysExit1
                    /\ pc' = "exited"
               ELSE /\ pc' = "login"
                    /\ UNCHANGED <<stderr, exit>>
    /\ UNCHANGED <<args, config, effects, raw, activities, idx, results, stdout>>

\* Login as it would be without the sys.exit(1) of line 112: after the
\* diagnostic, connect_garmin returns and main goes on
LoginNoExit ==
    /\ pc = "login"
    /\ \E ok \in BOOLEAN :
        /\ effects' = Append(effects, Effect("login", 0, NoPath, ok))
        /\ stderr' = IF ok THEN stderr ELSE Append(stderr, [kind |-> "error connecting"])
    /\ pc' = "dispatch"
    /\ cred' = NoCred
    /\ config' = EmptyDict
    /\ UNCHANGED <<args, raw, activities, idx, results, stdout, exit>>

\* lines 106-112: Garmin(email, password).login(); any failure prints and exits 1.
\* On success connect_garmin returns the client: the credentials and the
\* configuration are not used again (line 187 is the last use of config).
Login ==
    /\ pc = "login"
    /\ \E ok \in BOOLEAN :
        /\ effects' = Append(effects, Effect("login", 0, NoPath, ok))
        /\ IF ok
           THEN /\ pc' = "dispatch"
                /\ cred' = NoCred
                /\ config' = EmptyDict
                /\ UNCHANGED <<stderr, exit>>
           ELSE /\ stderr' = Append(stderr, [kind |-> "error connecting"])
                /\ exit' = SysExit1
                /\ pc' = "exited"
                /\ UNCHANGED <<cred, config>>
    /\ UNCHANGED <<args, raw, activities, idx, results, stdout>>

\* lines 117-122: client.get_activities_by_date(start, today); a failure of the
\* remote listing is caught nowhere
GetActivitiesByDate ==
    /\ pc = "dispatch"
    /\ args.command \in {"list", "fetch-all"}
    /\ \E ok \in BOOLEAN :
        /\ effects' = Append(effects, Effect("list", args.days, NoPath, ok))
        /\ IF ok
           THEN /\ \E listing \in SeqsUpTo(RunCatalogue, MaxActs) : raw' = listing
                /\ pc' = "filter"
                /\ UNCHANGED <<stderr, exit>>
           ELSE /\ stderr' = Append(stderr, Traceback("get_activities_by_date"))
                /\ exit' = Uncaught
                /\ pc' = "exited"
                /\ UNCHANGED raw
    /\ UNCHANGED <<args, config, cred, activities, idx, results, stdout>>

\* lines 124-135: build water_activities from the raw records
FilterActivities ==
    /\ pc = "filter"
    /\ activities' = WaterActivities(raw)
    /\ pc' = "filtered"
    /\ UNCHANGED <<args, config, cred, effects, raw, idx, results, stdout, stderr, exit>>

\* line 137: return water_activities to main (line 190 or line 214)
ListActivitiesReturn ==
    /\ pc = "filtered"
    /\ raw' = <<>>
    /\ pc' = IF args.command = "list" THEN "print_listing" ELSE "fetch_all"
    /\ UNCHANGED <<args, config, cred, effects, activities, idx, results, stdout,
                   stderr, exit>>

\* lines 192-204: print the listing as JSON or as text, then main returns
PrintListing ==
    /\ pc = "print_listing"
    /\ stdout' =
          IF args.json
          THEN Append(stdout, [kind |-> "json", doc |-> activities])
          ELSE IF activities = <<>>
          THEN Append(stdout, NoneFound(args.days))
          ELSE stdout \o << [kind |-> "header", days |-> args.days], [kind |-> "rule"] >>
                      \o ListingLines(activities)
    /\ exit' = Returned
    /\ pc' = "exited"
    /\ UNCHANGED <<args, config, cred, effects, raw, activities, idx, results, stderr>>

\* lines 206-211: fetch one activity; no file path means sys.exit(1)
FetchCmd ==
    /\ pc = "dispatch"
    /\ args.command = "fetch"
    /\ \E outcome \in FetchOutcomes :
        LET r == fetch_gpx(args.activity_id, args.output, outcome)
        IN  /\ effects' = effects \o r.effects
            /\ IF r.raised
               THEN /\ stderr' = Append(stderr, Traceback("mkdir"))
                    /\ exit' = Uncaught
                    /\ UNCHANGED stdout
               ELSE /\ stdout' = IF r.found
                                 THEN Append(stdout, [kind |-> "path", path |-> r.filepath])
                                 ELSE stdout
                    /\ stderr' = stderr \o r.stderr
                    /\ exit' = FetchExit(r.found)
    /\ pc' = "exited"
    /\ UNCHANGED <<args, config, cred, raw, activities, idx, results>>

\* lines 216-221: nothing to fetch
FetchAllEmpty ==
    /\ pc = "fetch_all"
    /\ activities = <<>>
    /\ stdout' = Append(stdout, IF args.json
                                THEN [kind |-> "json", doc |-> <<>>]
                                ELSE NoneFound(args.days))
    /\ exit' = Returned
    /\ pc' = "exited"
    /\ UNCHANGED <<args, config, cred, effects, raw, activities, idx, results, stderr>>

\* lines 224-234: one iteration of the for loop
FetchAllStep ==
    /\ pc = "fetch_all"
    /\ idx <= Len(activities)
    /\ \E outcome \in FetchOutcomes :
        LET act == activities[idx]
            r == fetch_gpx(act.id, args.output, outcome)
        IN  /\ effects' = effects \o r.effects
            /\ IF r.raised
               THEN /\ stderr' = Append(stderr, Traceback("mkdir"))
                    /\ exit' = Uncaught
                    /\ pc' = "exited"
                    /\ UNCHANGED <<idx, results, stdout>>
               ELSE /\ stderr' = stderr \o r.stderr
                    /\ results' = IF r.found
                                  THEN Append(results, FetchResult(act, r.filepath))
                                  ELSE results
                    /\ stdout' = IF r.found /\ ~args.json
                                 THEN Append(stdout, [kind |-> "downloaded",
                                                      path |-> r.filepath])
                                 ELSE stdout
                    /\ idx' = idx + 1
                    /\ UNCHANGED <<pc, exit>>
    /\ UNCHANGED <<args, config, cred, raw, activities>>

\* lines 236-237: the loop is over; print the collection in JSON mode; main returns
FetchAllFinish ==
    /\ pc = "fetch_all"
    /\ activities # <<>>
    /\ idx > Len(activities)
    /\ stdout' = IF args.json
                 THEN Append(stdout, [kind |-> "json", doc |-> results])
                 ELSE stdout
    /\ exit' = Returned
    /\ pc' = "exited"
    /\ UNCHANGED <<args, config, cred, effects, raw, activities, idx, results, stderr>>

Next ==
    \/ ParseArgs
    \/ LoadConfig
    \/ GetCredentials
    \/ Login
    \/ GetActivitiesByDate
    \/ FilterActivities
    \/ ListActivitiesReturn
    \/ PrintListing
    \/ FetchCmd
    \/ FetchAllEmpty
    \/ FetchAllStep
    \/ FetchAllFinish

Spec == Init /\ [][Next]_vars

----------------------------------------------------------------------------
(* The filter on its own: list_activities has just received a listing *)

LoggedIn == << Effect("login", 0, NoPath, TRUE) >>

InitFilter ==
    /\ pc = "filter"
    /\ args = [NoArgs EXCEPT !.command = "list"]
    /\ config = EmptyDict
    /\ cred = NoCred
    /\ effects = Append(LoggedIn, Effect("list", 30, NoPath, TRUE))
    /\ raw \in SeqsUpTo(FilterCatalogue, MaxRaw)
    /\ activities = <<>>
    /\ idx = 1
    /\ results = <<>>
    /\ stdout = <<>>
    /\ stderr = <<>>
    /\ exit = Running

NextFilter == FilterActivities

SpecFilter == InitFilter /\ [][NextFilter]_vars

----------------------------------------------------------------------------
(* Text rendering on its own: main is about to print a listing of one summary *)

RenderInputs ==
    { [duration |-> d, distance |-> 0] : d \in 0..MaxDuration }
    \cup { [duration |-> 0, distance |-> m] : m \in 0..MaxDistance }
    \cup { [duration |-> 3600, distance |-> 5000] }

InitRender ==
    /\ pc = "print_listing"
    /\ args = [NoArgs EXCEPT !.command = "list"]
    /\ config = EmptyDict
    /\ cred = NoCred
    /\ effects = Append(LoggedIn, Effect("list", 30, NoPath, TRUE))
    /\ raw = <<>>
    /\ \E in \in RenderInputs :
          activities = << [Summary(MorningPaddle) EXCEPT !.duration = in.duration,
                                                         !.distance = in.distance] >>
    /\ idx = 1
    /\ results = <<>>
    /\ stdout = <<>>
    /\ stderr = <<>>
    /\ exit = Running

NextRender == PrintListing

SpecRender == InitRender /\ [][NextRender]_vars

----------------------------------------------------------------------------
(* Properties of credential resolution *)

\* the configuration's garmin.onepassword subsection has a non-empty account
\* and a non-empty item
HasOnePassword(cfg) ==
    /\ "garmin" \in DOMAIN cfg
    /\ "onepassword" \in DOMAIN cfg["garmin"]
    /\ LET op == cfg["garmin"]["onepassword"]
       IN  /\ "account" \in DOMAIN op /\ op["account"] # ""
           /\ "item" \in DOMAIN op /\ op["item"] # ""

\* get_credentials has run (and connect_garmin has not yet returned a client)
Resolved == cred.kind # "none"

IsSpace(c) == c = " " \/ c = "\n" \/ c = "\t"
HasText(out) == \E i \in DOMAIN out : ~IsSpace(out[i])

\* v is out without its leading and trailing white space
IsStripped(out, v) ==
    \E a, b \in DOMAIN out :
        /\ a <= b
        /\ v = SubSeq(out, a, b)
        /\ ~IsSpace(out[a]) /\ ~IsSpace(out[b])
        /\ \A i \in DOMAIN out : (i < a \/ i > b) => IsSpace(out[i])

\* both invocations of the tool succeeded with non-empty stripped output
ToolYields ==
    /\ Len(cred.runs) = 2
    /\ \A i \in 1..2 : cred.runs[i].status = "ok" /\ HasText(cred.runs[i].out)

EnvValue(name) == IF name \in DOMAIN cred.environ THEN cred.environ[name] ELSE <<>>
EnvYields == EnvValue("GARMIN_EMAIL") # <<>> /\ EnvValue("GARMIN_PASSWORD") # <<>>

\* the run has not been ended by credential resolution: it is about to log in,
\* or it ended on the login that followed
PastCredentials ==
    \/ pc = "login" /\ exit = Running /\ stderr = <<>> /\ effects = <<>>
    \/ /\ pc = "exited" /\ Len(effects) = 1
       /\ effects[1].op = "login" /\ ~effects[1].ok
       /\ stderr = << [kind |-> "error connecting"] >>

\* the run was ended by credential resolution: the diagnostic, exit code 1,
\* and no call on the remote session
CredentialsFailed ==
    /\ pc = "exited"
    /\ exit.how = "sys.exit" /\ exit.code = 1
    /\ Len(stderr) = 3
    /\ stderr[1].kind = "credentials not found"
    /\ stderr[2].kind = "set GARMIN_EMAIL and GARMIN_PASSWORD"
    /\ stderr[3].kind = "or configure 1Password"
    /\ stdout = <<>>
    /\ effects = <<>>

\* the outcome of resolution from the environment variables alone
EnvOnlyOutcome ==
    /\ cred.envRead
    /\ IF EnvYields
       THEN /\ cred.kind = "return"
            /\ cred.email = EnvValue("GARMIN_EMAIL")
            /\ cred.password = EnvValue("GARMIN_PASSWORD")
            /\ PastCredentials
       ELSE /\ cred.kind = "exit"
            /\ CredentialsFailed

\* C1: with onepassword.account and onepassword.item both set, if both tool
\* invocations succeed with non-empty stripped output that pair is returned
\* (the environment is not consulted); if an invocation fails or an output is
\* empty, nothing is reported about it, the run is not ended by it, and the
\* outcome is the one of resolution from GARMIN_EMAIL / GARMIN_PASSWORD alone,
\* both halves from the environment.
C1_OnePasswordElseEnvironment ==
    (Resolved /\ HasOnePassword(config)) =>
        IF ToolYields
        THEN /\ cred.kind = "return"
             /\ IsStripped(cred.runs[1].out, cred.email)
             /\ IsStripped(cred.runs[2].out, cred.password)
             /\ ~cred.envRead
             /\ PastCredentials
        ELSE /\ Len(cred.runs) \in {1, 2}
             /\ Len(cred.invoked) = Len(cred.runs)
             /\ EnvOnlyOutcome

\* the tool answered twice but the second answer was blank, and the pair came
\* from the environment
C1_Witness ==
    /\ pc = "login"
    /\ HasOnePassword(config)
    /\ Len(cred.runs) = 2
    /\ cred.runs[1].status = "ok" /\ HasText(cred.runs[1].out)
    /\ cred.runs[2].status = "ok" /\ ~HasText(cred.runs[2].out)
    /\ cred.kind = "return"
    /\ cred.email = <<"e">>

\* C2: when the onepassword subsection is missing, or its account or item is
\* missing or empty, the tool is never invoked and the result is determined
\* by GARMIN_EMAIL and GARMIN_PASSWORD alone.
C2_NoOnePasswordNoTool ==
    (Resolved /\ ~HasOnePassword(config)) =>
        /\ cred.invoked = <<>>
        /\ cred.runs = <<>>
        /\ EnvOnlyOutcome

\* an onepassword subsection with an account but an empty item: the pair came
\* from the environment without any invocation
C2_Witness ==
    /\ pc = "login"
    /\ "garmin" \in DOMAIN config
    /\ "onepassword" \in DOMAIN config["garmin"]
    /\ config["garmin"]["onepassword"] = [account |-> "set", item |-> ""]
    /\ cred.kind = "return"
    /\ cred.invoked = <<>>

\* C3: a returned pair has a non-empty identity and a non-empty secret, and the
\* login step is reached only with such a pair; when neither the tool nor the
\* environment yields a non-empty pair the diagnostic is printed, the process
\* exits with code 1, and no call on the remote session is made.
C3_NonEmptyOrExit ==
    /\ (cred.kind = "return" => cred.email # <<>> /\ cred.password # <<>>)
    /\ (pc = "login" => cred.kind = "return")
    /\ (Resolved /\ ~(HasOnePassword(config) /\ ToolYields) /\ ~EnvYields
            => cred.kind = "exit")
    /\ (cred.kind = "exit" => CredentialsFailed)

\* empty configuration, both variables unset: the run ended with the diagnostic
C3_Witness ==
    /\ cred.kind = "exit"
    /\ config = EmptyDict
    /\ cred.envRead /\ cred.environ = EmptyDict
    /\ pc = "exited" /\ exit.code = 1

----------------------------------------------------------------------------
(* Properties of the filter *)

Whitelist ==
    { "kayaking", "whitewater_rafting_v2", "stand_up_paddleboarding", "paddling",
      "canoeing", "rowing" }

\* the category of a raw record: activityType.typeKey, "" when absent
Category(r) ==
    IF "activityType" \in DOMAIN r /\ "typeKey" \in DOMAIN r["activityType"]
    THEN r["activityType"]["typeKey"]
    ELSE ""

\* positions of the raw records whose category is in the whitelist
Kept == { i \in DOMAIN raw : Category(raw[i]) \in Whitelist }
Rank(i) == Cardinality({ j \in Kept : j <= i })

\* C4: the filter returns one summary per raw record whose category is one of
\* the six whitelist values, in the order of the raw records, and nothing
\* else: the k-th kept record gives the k-th summary, two records with the
\* same id give two summaries, and every summary's type is in the whitelist.
C4_FilterIsWhitelistSubsequence ==
    pc = "filtered" =>
        /\ Len(activities) = Cardinality(Kept)
        /\ \A i \in Kept :
              /\ activities[Rank(i)].id = raw[i]["activityId"]
              /\ activities[Rank(i)].type = Category(raw[i])
        /\ \A k \in DOMAIN activities : activities[k].type \in Whitelist

\* two whitelisted records with the same id, after a record that differs from
\* a whitelist value only in case and was dropped
C4_Witness ==
    /\ pc = "filtered"
    /\ Len(raw) = 3
    /\ Category(raw[1]) = "Kayaking"
    /\ Category(raw[2]) \in Whitelist /\ Category(raw[3]) \in Whitelist
    /\ raw[2]["activityId"] = raw[3]["activityId"]
    /\ Len(activities) = 2
    /\ activities[1].id = activities[2].id

----------------------------------------------------------------------------
(* Properties of fetching *)

Last(seq) == seq[Len(seq)]
CountIn(seq, x) == Cardinality({ i \in DOMAIN seq : seq[i] = x })
At(op) == { i \in DOMAIN effects : effects[i].op = op }

\* position in effects of the k-th download call
NthDownload(k) ==
    CHOOSE i \in At("download") : Cardinality({ j \in At("download") : j <= i }) = k

\* the k-th download call returned bytes
Downloaded(k) == effects[NthDownload(k)].ok

\* the k-th download call returned bytes and they were written
Saved(k) ==
    LET i == NthDownload(k)
    IN  /\ effects[i].ok
        /\ i < Len(effects)
        /\ effects[i + 1].op = "write" /\ effects[i + 1].ok

\* the file <output-dir>/activity_<id>.gpx
ExpectedPath(id) ==
    [ dir |-> IF args.output = "." THEN <<>> ELSE <<args.output>>,
      name |-> <<"activity_", id, ".gpx">> ]

\* the entries for the first k summaries, keeping those that mask selects
RECURSIVE PickBy(_, _)
PickBy(k, mask) ==
    IF k = 0 THEN <<>>
    ELSE PickBy(k - 1, mask) \o
         ( IF mask[k]
           THEN << [ id |-> activities[k].id, name |-> activities[k].name,
                     date |-> activities[k].date,
                     file |-> ExpectedPath(activities[k].id) ] >>
           ELSE <<>> )

FetchDiagnostics == { i \in DOMAIN stderr : stderr[i].kind = "error fetching" }

\* a fetch-all run that ended by main returning
FetchAllReturned == args.command = "fetch-all" /\ pc = "exited" /\ exit.how = "return"

\* C5: in a fetch-all run every summary gets its download whatever happened to
\* the earlier ones, the result collection is the subsequence, in list order,
\* of the summaries whose download succeeded (and was written), each failure
\* prints one diagnostic naming the activity id, a failed download never
\* changes the exit code, and an empty filtered list gives an empty
\* collection with no download.
C5_BatchIsolatesFailures ==
    args.command = "fetch-all" =>
        /\ (exit.code # 0 /\ effects # <<>>
                => ~Last(effects).ok /\ Last(effects).op \in {"login", "list", "mkdir"})
        /\ FetchAllReturned =>
              LET n == Len(activities)
              IN  /\ exit.code = 0
                  /\ Cardinality(At("download")) = n
                  /\ \A k \in 1..n : effects[NthDownload(k)].id = activities[k].id
                  /\ results = PickBy(n, [k \in 1..n |-> Saved(k)])
                  /\ (\A i \in At("write") : effects[i].ok)
                        => results = PickBy(n, [k \in 1..n |-> Downloaded(k)])
                  /\ \A k \in 1..n :
                        CountIn(stderr, [kind |-> "error fetching", id |-> activities[k].id])
                          = Cardinality({ j \in 1..n : /\ activities[j].id = activities[k].id
                                                       /\ ~Saved(j) })
                  /\ Cardinality(FetchDiagnostics)
                          = Cardinality({ k \in 1..n : ~Saved(k) })
                  /\ (n = 0 => results = <<>> /\ At("download") = {} /\ At("mkdir") = {})

\* three summaries, the second download failed: two entries (first and third),
\* one diagnostic, exit code 0
C5_Witness ==
    /\ FetchAllReturned
    /\ Len(activities) = 3
    /\ Cardinality(At("download")) = 3
    /\ Downloaded(1) /\ ~Downloaded(2) /\ Downloaded(3)
    /\ Len(results) = 2
    /\ results[1].id = activities[1].id /\ results[2].id = activities[3].id
    /\ activities[2].id # activities[1].id
    /\ Cardinality(FetchDiagnostics) = 1
    /\ exit.code = 0

\* C6: a fetch run that got past login exits 0 with the path
\* <output-dir>/activity_<id>.gpx on standard output exactly when the download
\* succeeded and its bytes were written; on a download failure it prints the
\* diagnostic naming the id, prints no path, and exits 1.
C6_SingleFetchExit ==
    (args.command = "fetch" /\ pc = "exited" /\ effects # <<>> /\ effects[1].ok) =>
        LET written == \E i \in At("write") :
                          /\ effects[i].ok
                          /\ effects[i].path = ExpectedPath(args.activity_id)
                          /\ \E j \in At("download") : j < i /\ effects[j].ok
            failed == \E j \in At("download") : ~effects[j].ok
            line == [kind |-> "path", path |-> ExpectedPath(args.activity_id)]
        IN  /\ written <=> (exit.code = 0 /\ stdout = <<line>>)
            /\ ~written => (exit.code = 1 /\ stdout = <<>>)
            /\ failed => /\ stderr = << [kind |-> "error fetching",
                                         id |-> args.activity_id] >>
                         /\ stdout = <<>>
                         /\ exit.how = "sys.exit" /\ exit.code = 1

\* a fetch whose download failed
C6_Witness ==
    /\ args.command = "fetch" /\ args.activity_id = 42
    /\ pc = "exited"
    /\ Len(effects) = 3
    /\ effects[3].op = "download" /\ ~effects[3].ok
    /\ exit.code = 1
    /\ stdout = <<>>
    /\ Len(stderr) = 1

\* a failure that ends the run: nothing follows it
EndsRun(i) == i = Len(effects) /\ pc = "exited" /\ exit.code = 1

\* failures before any effect: the configuration file, the credentials
EarlyFailuresEndRun ==
    /\ (\E i \in DOMAIN stderr : stderr[i] = Traceback("json.load"))
            => pc = "exited" /\ exit.code = 1 /\ effects = <<>>
    /\ cred.kind = "exit" => pc = "exited" /\ exit.code = 1 /\ effects = <<>>

\* in a batch, a failed download does not end the run: if the run ended right
\* after it, the loop was over and main returned with exit code 0
DownloadFailureRecovered ==
    \A i \in At("download") :
        (~effects[i].ok /\ args.command = "fetch-all" /\ i = Len(effects) /\ pc = "exited")
            => (exit.how = "return" /\ exit.code = 0 /\ idx > Len(activities))

\* C7 as claimed: only a failed download call is recovered; every other
\* failure, a failed write of the output file included, ends the run at once.
C7_OnlyDownloadRecovered ==
    /\ \A i \in DOMAIN effects :
          (~effects[i].ok /\ effects[i].op # "download") => EndsRun(i)
    /\ EarlyFailuresEndRun
    /\ DownloadFailureRecovered

\* C7 as the code has it: a failed download call and a failed write of the
\* output file are both recovered (diagnostic, no path, the batch goes on);
\* a malformed configuration file, failed credential resolution, a failed
\* login, a failed listing and a failed creation of the output directory end
\* the run at once, with no further remote call or file write.
C7_DownloadAndWriteRecovered ==
    /\ \A i \in DOMAIN effects :
          (~effects[i].ok /\ effects[i].op \notin {"download", "write"}) => EndsRun(i)
    /\ EarlyFailuresEndRun
    /\ DownloadFailureRecovered
    /\ \A i \in At("write") :
          (~effects[i].ok /\ args.command = "fetch-all" /\ i = Len(effects) /\ pc = "exited")
              => (exit.how = "return" /\ exit.code = 0 /\ idx > Len(activities))
    /\ args.command = "fetch-all" =>
          Cardinality(FetchDiagnostics)
            = Cardinality({ i \in At("download") \cup At("write") : ~effects[i].ok })

\* a batch in which a write failed and a later activity was still downloaded
\* and written
C7_Witness ==
    /\ args.command = "fetch-all"
    /\ \E i \in At("write"), j \in At("write") :
          i < j /\ ~effects[i].ok /\ effects[j].ok
    /\ Len(results) = 1

----------------------------------------------------------------------------
(* Properties of text rendering *)

\* the detail line of the only activity of a text listing
Rendered == pc = "exited" /\ args.command = "list" /\ ~args.json /\ Len(activities) = 1
DetailLine == stdout[Len(stdout)]
RenderedTenths == 10 * DetailLine.km.whole + DetailLine.km.tenth

NonNegative == activities[1].duration >= 0 /\ activities[1].distance >= 0

\* C8 as claimed: minutes are floor(duration / 60) and kilometers are
\* distance / 1000 to one decimal with half-up rounding (250 m gives 0.3).
C8_HalfUp ==
    (Rendered /\ NonNegative) =>
        /\ DetailLine.min * 60 <= activities[1].duration
        /\ activities[1].duration < (DetailLine.min + 1) * 60
        /\ RenderedTenths = (activities[1].distance + 50) \div 100

\* C8 as the code has it: minutes are floor(duration / 60); kilometers are
\* distance / 1000 to the nearest tenth, which is the half-up value whenever
\* the distance is not exactly halfway between two tenths; an exact half is
\* not always rounded up: where distance / 1000 is a binary fraction (250 m,
\* 750 m, 1250 m, ...) it goes to the even tenth (250 m gives 0.2).
C8_NearestTenthHalfEven ==
    (Rendered /\ NonNegative) =>
        LET d == activities[1].distance
            t == RenderedTenths
        IN  /\ DetailLine.min * 60 <= activities[1].duration
            /\ activities[1].duration < (DetailLine.min + 1) * 60
            /\ DetailLine.km.tenth \in 0..9
            /\ 100 * t - d <= 50 /\ d - 100 * t <= 50
            /\ d % 100 # 50 => t = (d + 50) \div 100
            /\ d % 500 = 250 => t % 2 = 0

\* 250 m rendered as 0.2 km
C8_Witness ==
    /\ Rendered
    /\ activities[1].distance = 250
    /\ DetailLine.km = [whole |-> 0, tenth |-> 2]

----------------------------------------------------------------------------
(* Properties of the order of remote operations *)

IsRemote(e) == e.op \in {"login", "list", "download"}
Remote == SelectSeq(effects, IsRemote)

\* C9: a run with a subcommand calls the remote session in the order login,
\* then (list, fetch-all) one listing, then downloads: at most one login, and
\* exactly one once main is past connect_garmin; nothing before a successful
\* login; a failed login is final and exits 1; in fetch-all the listing is
\* fetched and filtered once and the downloads are those of the summaries, one
\* each, in list order; a run without subcommand exits 1 having loaded no
\* configuration, resolved no credentials and called nothing.
C9_RemoteCallOrder ==
    LET downloads == SelectSeq(effects, LAMBDA e : e.op = "download")
    IN  /\ Cardinality(At("login")) <= 1
        /\ Cardinality(At("list")) <= 1
        /\ Remote # <<>> => Remote[1].op = "login"
        /\ Len(Remote) > 1 => Remote[1].ok
        /\ pc \in {"dispatch", "filter", "filtered", "print_listing", "fetch_all"}
              => Cardinality(At("login")) = 1 /\ effects[1].ok
        /\ \A i \in At("login") :
              ~effects[i].ok => (Len(effects) = 1 /\ pc = "exited"
                                 /\ exit.how = "sys.exit" /\ exit.code = 1)
        /\ args.command \in {"list", "fetch-all"} =>
              /\ Len(Remote) > 1 => Remote[2].op = "list"
              /\ pc \in {"filter", "filtered", "print_listing", "fetch_all"}
                    => Cardinality(At("list")) = 1
              /\ \A i \in At("list") : ~effects[i].ok => EndsRun(i)
        /\ args.command = "list" => downloads = <<>>
        /\ args.command = "fetch" => At("list") = {} /\ Len(downloads) <= 1
        /\ args.command = "fetch-all" =>
              /\ Len(downloads) <= Len(activities)
              /\ \A k \in DOMAIN downloads : downloads[k].id = activities[k].id
              /\ pc = "fetch_all" => idx = Len(downloads) + 1
              /\ FetchAllReturned => Len(downloads) = Len(activities)
        /\ args.command = "" =>
              /\ pc \in {"parse_args", "exited"}
              /\ config = EmptyDict /\ cred = NoCred /\ effects = <<>>
              /\ pc = "exited" => (exit.how = "sys.exit" /\ exit.code = 1
                                   /\ stdout = << [kind |-> "help"] >>)

\* a fetch-all run that returned after login, one listing and three downloads
C9_Witness ==
    /\ FetchAllReturned
    /\ Len(Remote) = 5
    /\ Remote[1].op = "login" /\ Remote[2].op = "list"
    /\ \A k \in 3..5 : Remote[k].op = "download" /\ Remote[k].id = activities[k - 2].id
    /\ ~Remote[4].ok

----------------------------------------------------------------------------
(* Properties of the files written *)

\* C10 as claimed: in a fetch-all run no two writes target the same path and
\* the entries of the result collection refer to distinct files, also when
\* two summaries carry the same id.
C10_WritesNeverOverlap ==
    args.command = "fetch-all" =>
        /\ \A i, j \in At("write") : i # j => effects[i].path # effects[j].path
        /\ \A i, j \in DOMAIN results : i # j => results[i].file # results[j].file

\* C10 as the code has it: every write targets <output-dir>/activity_<id>.gpx,
\* so two writes of a fetch-all run target the same path exactly when their
\* summaries carry the same id, and two entries of the result collection refer
\* to the same file exactly when they carry the same id: the files are
\* distinct when the ids of the filtered list are.
C10_WritesOverlapOnlyOnSameId ==
    args.command = "fetch-all" =>
        /\ \A i \in At("write") : effects[i].path = ExpectedPath(effects[i].id)
        /\ \A i, j \in At("write") :
              (effects[i].path = effects[j].path) <=> (effects[i].id = effects[j].id)
        /\ \A i, j \in DOMAIN results :
              (results[i].file = results[j].file) <=> (results[i].id = results[j].id)

\* two summaries with the same id were both fetched, into the same file, next
\* to one with another id
C10_Witness ==
    /\ FetchAllReturned
    /\ Len(results) = 3
    /\ results[1].id = results[2].id /\ results[1].file = results[2].file
    /\ results[3].id # results[1].id /\ results[3].file # results[1].file

====
